---- MODULE Spec2Model ----
(***************************************************************************)
(* Model of the MLflow / FiftyOne run mirror in src/__init__.py.           *)
(*                                                                         *)
(* Strings that the code inspects or builds (run names, registry keys,     *)
(* URLs) are sequences of atoms (characters or opaque pieces), so that     *)
(* str.replace and the f-string are computed, not assumed.                 *)
(*                                                                         *)
(* The dataset's run registry is a sequence of <<key, config>> entries in  *)
(* list_runs() order.  register_run writes the config under the key,       *)
(* replacing a config already stored there (last write wins).              *)
(***************************************************************************)
EXTENDS Integers, Sequences, FiniteSets, TLC

VARIABLES registry, last, ncalls, pc, loc, serial

vars == <<registry, last, ncalls, pc, loc, serial>>

\* Bound on the number of log_mlflow_run_to_fiftyone_dataset calls of a run.
MaxCalls == 3

\* A falsy run id (None or ""), an absent name or tracking_uri, no value
NoRunId == ""
NoName == << >>
NoUri == << >>
NoValue == [none |-> TRUE]

Range(s) == {s[i] : i \in 1..Len(s)}

----------------------------------------------------------------------------
\* Names

Exp1 == <<"e", "1">>
ExpAB == <<"a", "_", "b">>
ExpGhost == <<"g">>
ExpOld == <<"o", "l", "d">>
KeyEval == <<"e", "v">>

NameAHyphenB == <<"a", "-", "b">>
NameAUnderB == <<"a", "_", "b">>
NameMyRun == <<"M", "-", "R">>

\* Variant of _format_run_name that keeps the hyphens
FormatRunName_Identity(run_name) == run_name

\* _format_run_name: run_name.replace("-", "_")
FormatRunName(run_name) ==
    [i \in 1..Len(run_name) |->
        IF run_name[i] = "-" THEN "_" ELSE run_name[i]]

----------------------------------------------------------------------------
\* The tracking service, as the mlflow client reports it

RunNameTag == "mlflow.runName"

DefaultTrackingUri == <<"http://localhost:8080">>

TrackingExperiments ==
    (Exp1 :> [artifact_location |-> "loc/1", creation_time |-> "t1",
              experiment_id |-> <<"1">>, tags |-> <<>>])
    @@ (ExpAB :> [artifact_location |-> "loc/2", creation_time |-> "t2",
                  experiment_id |-> <<"2">>, tags |-> <<>>])

TrackingRuns ==
    ("r1" :> [info |-> [run_uuid |-> "r1", experiment_id |-> <<"1">>,
                        artifact_uri |-> "art/r1"],
              data |-> [tags |-> (RunNameTag :> NameAHyphenB),
                        metrics |-> "m1"]])
    @@ ("r2" :> [info |-> [run_uuid |-> "r2", experiment_id |-> <<"1">>,
                           artifact_uri |-> "art/r2"],
                 data |-> [tags |-> (RunNameTag :> NameAUnderB),
                           metrics |-> "m2"]])
    @@ ("r3" :> [info |-> [run_uuid |-> "r3", experiment_id |-> <<"2">>,
                           artifact_uri |-> "art/r3"],
                 data |-> [tags |-> (RunNameTag :> NameMyRun),
                           metrics |-> "m3"]])
    @@ ("r4" :> [info |-> [run_uuid |-> "r4", experiment_id |-> <<"1">>,
                           artifact_uri |-> "art/r4"],
                 data |-> [tags |-> ("user" :> <<"u">>),
                           metrics |-> "m4"]])

\* mlflow.get_experiment_by_name returns None when the service has no such
\* experiment, and mlflow.get_run raises when it has no such run
ExperimentFound(experiment_name) ==
    experiment_name \in DOMAIN TrackingExperiments

GetExperimentByName(experiment_name) == TrackingExperiments[experiment_name]

\* run.data.tags["mlflow.runName"], line 57
DisplayNameOf(run_id) == TrackingRuns[run_id].data.tags[RunNameTag]

\* Arguments callers pass
ExperimentNameArgs == {Exp1, ExpAB, ExpGhost, ExpOld}
RunIdArgs == {NoRunId, "r1", "r2", "r3", "r4", "r9"}

----------------------------------------------------------------------------
\* The dataset's run registry

Keys(reg) == {reg[i].key : i \in 1..Len(reg)}

\* dataset.list_runs()
ListRuns(reg) == [i \in 1..Len(reg) |-> reg[i].key]

\* dataset.get_run_info(key).config
GetRunInfo(reg, key) ==
    reg[CHOOSE i \in 1..Len(reg) : reg[i].key = key].config

WriteConfig(reg, key, config) ==
    IF key \in Keys(reg)
    THEN [i \in 1..Len(reg) |->
            IF reg[i].key = key THEN [key |-> key, config |-> config]
            ELSE reg[i]]
    ELSE Append(reg, [key |-> key, config |-> config])

\* dataset.register_run(key, config)
RegisterRun(reg, key, config) == WriteConfig(reg, key, config)

\* dataset.update_run_config(key, config)
UpdateRunConfig(reg, key, config) == WriteConfig(reg, key, config)

\* Variant of _fiftyone_experiment_run_exists that never finds the record
FiftyoneExperimentRunExists_Never(reg, experiment_name) == FALSE

\* _fiftyone_experiment_run_exists
FiftyoneExperimentRunExists(reg, experiment_name) ==
    experiment_name \in Range(ListRuns(reg))

\* Registries a dataset may hold before the first call: nothing, or records
\* written earlier (an experiment record that predates the tracking_uri
\* field, and a custom run of another method).
EmptyRegistry == << >>

LegacyRegistry ==
    << [key |-> ExpOld,
        config |-> [method |-> "mlflow_experiment",
                    artifact_location |-> "loc/7",
                    created_at |-> "t0",
                    experiment_name |-> ExpOld,
                    experiment_id |-> <<"7">>,
                    tags |-> <<>>,
                    runs |-> <<>>]],
       [key |-> KeyEval, config |-> [method |-> "evaluation"]] >>

InitialRegistries == {EmptyRegistry, LegacyRegistry}

----------------------------------------------------------------------------
\* Config construction

\* _initialize_fiftyone_run_for_mlflow_experiment, lines 31-40
ExperimentConfig(experiment_name, experiment, tracking_uri) ==
    [method |-> "mlflow_experiment",
     artifact_location |-> experiment.artifact_location,
     created_at |-> experiment.creation_time,
     experiment_name |-> experiment_name,
     experiment_id |-> experiment.experiment_id,
     tracking_uri |-> IF tracking_uri = NoUri THEN DefaultTrackingUri
                      ELSE tracking_uri,
     tags |-> experiment.tags,
     runs |-> <<>>]

\* _add_fiftyone_run_for_mlflow_run, lines 59-67
RunConfig(run_id, run) ==
    [method |-> "mlflow_run",
     run_name |-> run.data.tags[RunNameTag],
     run_id |-> run_id,
     run_uuid |-> run.info.run_uuid,
     experiment_id |-> run.info.experiment_id,
     artifact_uri |-> run.info.artifact_uri,
     metrics |-> run.data.metrics,
     tags |-> run.data.tags]

\* The outcome of a call: how it ended, the registry it leaves, and the
\* tracking-service calls and registry writes it made.
Outcome(status, reg, calls, writes) ==
    [status |-> status, registry |-> reg,
     tracking_calls |-> calls, writes |-> writes]

\* Variant of _initialize_fiftyone_run_for_mlflow_experiment that registers
\* the config before it reads the experiment's fields
InitializeFiftyoneRunForMlflowExperiment_WriteFirst(reg, experiment_name, tracking_uri) ==
    LET experiment == GetExperimentByName(experiment_name)
        partial == [method |-> "mlflow_experiment"]
    IN  IF ~ExperimentFound(experiment_name)
        THEN Outcome("AttributeError",
                     RegisterRun(reg, experiment_name, partial), 1, 1)
        ELSE Outcome("ok",
                     RegisterRun(reg, experiment_name,
                         ExperimentConfig(experiment_name, experiment,
                                          tracking_uri)), 1, 1)

\* _initialize_fiftyone_run_for_mlflow_experiment: a missing experiment is
\* None, and reading its artifact_location raises before anything is written
InitializeFiftyoneRunForMlflowExperiment(reg, experiment_name, tracking_uri) ==
    LET experiment == GetExperimentByName(experiment_name)
    IN  IF ~ExperimentFound(experiment_name)
        THEN Outcome("AttributeError", reg, 1, 0)
        ELSE Outcome("ok",
                     RegisterRun(reg, experiment_name,
                         ExperimentConfig(experiment_name, experiment,
                                          tracking_uri)), 1, 1)

\* Variant of _add_fiftyone_run_for_mlflow_run that registers the run under
\* its raw display name
AddFiftyoneRunForMlflowRun_RawKey(reg, experiment_name, run_id) ==
    LET run == TrackingRuns[run_id]
        run_name == run.data.tags[RunNameTag]
        reg1 == RegisterRun(reg, run_name, RunConfig(run_id, run))
        config == GetRunInfo(reg1, experiment_name)
    IN  IF run_id \notin DOMAIN TrackingRuns
        THEN Outcome("MlflowException", reg, 1, 0)
        ELSE IF RunNameTag \notin DOMAIN run.data.tags
        THEN Outcome("KeyError", reg, 1, 0)
        ELSE IF experiment_name \notin Keys(reg1)
        THEN Outcome("ValueError", reg1, 1, 1)
        ELSE IF "runs" \notin DOMAIN config
        THEN Outcome("AttributeError", reg1, 1, 1)
        ELSE Outcome("ok",
                     UpdateRunConfig(reg1, experiment_name,
                         [config EXCEPT !.runs = Append(@, run_name)]), 1, 2)

\* _add_fiftyone_run_for_mlflow_run
AddFiftyoneRunForMlflowRun(reg, experiment_name, run_id) ==
    LET run == TrackingRuns[run_id]
        run_name == run.data.tags[RunNameTag]
        reg1 == RegisterRun(reg, FormatRunName(run_name),
                            RunConfig(run_id, run))
        config == GetRunInfo(reg1, experiment_name)
    IN  IF run_id \notin DOMAIN TrackingRuns
        THEN Outcome("MlflowException", reg, 1, 0)
        ELSE IF RunNameTag \notin DOMAIN run.data.tags
        THEN Outcome("KeyError", reg, 1, 0)
        ELSE IF experiment_name \notin Keys(reg1)
        THEN Outcome("ValueError", reg1, 1, 1)
        ELSE IF "runs" \notin DOMAIN config
        THEN Outcome("AttributeError", reg1, 1, 1)
        ELSE Outcome("ok",
                     UpdateRunConfig(reg1, experiment_name,
                         [config EXCEPT !.runs = Append(@, run_name)]), 1, 2)

\* log_mlflow_run_to_fiftyone_dataset
LogMlflowRunToFiftyoneDataset(reg, experiment_name, run_id) ==
    LET ensured ==
            IF FiftyoneExperimentRunExists(reg, experiment_name)
            THEN Outcome("ok", reg, 0, 0)
            ELSE InitializeFiftyoneRunForMlflowExperiment(reg, experiment_name, NoUri)
        added == AddFiftyoneRunForMlflowRun(ensured.registry, experiment_name, run_id)
    IN  IF ensured.status # "ok" \/ run_id = NoRunId
        THEN ensured
        ELSE Outcome(added.status, added.registry,
                     ensured.tracking_calls + added.tracking_calls,
                     ensured.writes + added.writes)

\* Variant of the url construction with another fallback uri
ExperimentUrl_OtherDefault(cfg) ==
    LET uri == IF "tracking_uri" \in DOMAIN cfg THEN cfg.tracking_uri
               ELSE <<"http://localhost:5000">>
    IN  [url |-> uri \o <<"/#/experiments/">> \o cfg.experiment_id,
         name |-> cfg.experiment_name]

\* get_candidate_experiments, lines 108-115
ExperimentUrl(cfg) ==
    LET uri == IF "tracking_uri" \in DOMAIN cfg THEN cfg.tracking_uri
               ELSE DefaultTrackingUri
    IN  [url |-> uri \o <<"/#/experiments/">> \o cfg.experiment_id,
         name |-> cfg.experiment_name]

\* line 104
IsExperimentEntry(entry) == entry.config.method = "mlflow_experiment"

\* get_candidate_experiments
GetCandidateExperiments(reg) ==
    LET mlflow_experiment_runs == SelectSeq(reg, IsExperimentEntry)
    IN  [urls |-> [j \in 1..Len(mlflow_experiment_runs) |->
                     ExperimentUrl(mlflow_experiment_runs[j].config)]]

----------------------------------------------------------------------------
\* Sequential callers: each call runs to completion

Procs == {1, 2}

IdleLoc == [experiment_name |-> NoName, run_id |-> NoRunId,
            run_name |-> NoName, info |-> NoValue, attach_writes |-> 0,
            at |-> "idle"]

NoCall == [op |-> "none", experiment_name |-> NoName, run_id |-> NoRunId,
           status |-> "none", before |-> << >>, tracking_calls |-> 0,
           writes |-> 0, result |-> NoValue]

Init ==
    /\ registry \in InitialRegistries
    /\ last = NoCall
    /\ ncalls = 0
    /\ pc = [p \in Procs |-> "idle"]
    /\ loc = [p \in Procs |-> IdleLoc]
    /\ serial = TRUE

LogMlflowRunToFiftyoneDatasetCall(experiment_name, run_id) ==
    LET out == LogMlflowRunToFiftyoneDataset(registry, experiment_name, run_id)
    IN  /\ ncalls < MaxCalls
        /\ registry' = out.registry
        /\ last' = [op |-> "log_run", experiment_name |-> experiment_name,
                    run_id |-> run_id, status |-> out.status,
                    before |-> registry,
                    tracking_calls |-> out.tracking_calls,
                    writes |-> out.writes, result |-> NoValue]
        /\ ncalls' = ncalls + 1
        /\ UNCHANGED <<pc, loc, serial>>

GetCandidateExperimentsCall ==
    /\ registry' = registry
    /\ last' = [op |-> "get_candidate_experiments",
                experiment_name |-> NoName, run_id |-> NoRunId,
                status |-> "ok",
                before |-> registry, tracking_calls |-> 0, writes |-> 0,
                result |-> GetCandidateExperiments(registry)]
    /\ UNCHANGED <<ncalls, pc, loc, serial>>

Next ==
    \/ \E experiment_name \in ExperimentNameArgs, run_id \in RunIdArgs :
          LogMlflowRunToFiftyoneDatasetCall(experiment_name, run_id)
    \/ GetCandidateExperimentsCall

Spec == Init /\ [][Next]_vars

----------------------------------------------------------------------------
\* Concurrent callers: each process makes one log_run call, one registry or
\* tracking-service call per step, and may stop between any two steps.

ActivePcs == {"exists_check", "initialize", "get_run", "register_run",
              "get_run_info", "update_run_config"}

\* log_mlflow_run_to_fiftyone_dataset, line 94: if run_id
AfterEnsure(run_id) == IF run_id = NoRunId THEN "done" ELSE "get_run"

\* Variant order: the parent experiment record is updated first
NextStep_ParentFirst(at) ==
    CASE at = "get_run" -> "get_run_info"
      [] at = "get_run_info" -> "update_run_config"
      [] at = "update_run_config" -> "register_run"
      [] at = "register_run" -> "done"

\* The order of the steps of _add_fiftyone_run_for_mlflow_run
NextStep(at) ==
    CASE at = "get_run" -> "register_run"
      [] at = "register_run" -> "get_run_info"
      [] at = "get_run_info" -> "update_run_config"
      [] at = "update_run_config" -> "done"

Goto(p, to) ==
    pc' = [pc EXCEPT ![p] = to]

Fail(p) ==
    /\ pc' = [pc EXCEPT ![p] = "failed"]
    /\ loc' = [loc EXCEPT ![p].at = pc[p]]

\* log_mlflow_run_to_fiftyone_dataset is entered
Call(p, experiment_name, run_id) ==
    /\ pc[p] = "idle"
    /\ Goto(p, "exists_check")
    /\ loc' = [loc EXCEPT ![p] = [IdleLoc EXCEPT
                                     !.experiment_name = experiment_name,
                                     !.run_id = run_id]]
    /\ serial' = (serial /\ \A q \in Procs \ {p} : pc[q] \notin ActivePcs)
    /\ UNCHANGED <<registry, last, ncalls>>

\* line 90
ExistsCheck(p) ==
    /\ pc[p] = "exists_check"
    /\ IF FiftyoneExperimentRunExists(registry, loc[p].experiment_name)
       THEN Goto(p, AfterEnsure(loc[p].run_id))
       ELSE Goto(p, "initialize")
    /\ UNCHANGED <<registry, last, ncalls, loc, serial>>

\* lines 91-93
Initialize(p) ==
    /\ pc[p] = "initialize"
    /\ LET out == InitializeFiftyoneRunForMlflowExperiment(registry, loc[p].experiment_name,
                                       NoUri)
       IN  /\ registry' = out.registry
           /\ IF out.status = "ok"
              THEN Goto(p, AfterEnsure(loc[p].run_id)) /\ UNCHANGED loc
              ELSE Fail(p)
    /\ UNCHANGED <<last, ncalls, serial>>

\* lines 56-67
GetRun(p) ==
    /\ pc[p] = "get_run"
    /\ IF \/ loc[p].run_id \notin DOMAIN TrackingRuns
          \/ RunNameTag \notin DOMAIN TrackingRuns[loc[p].run_id].data.tags
       THEN Fail(p)
       ELSE /\ Goto(p, NextStep("get_run"))
            /\ loc' = [loc EXCEPT ![p].run_name = DisplayNameOf(loc[p].run_id)]
    /\ UNCHANGED <<registry, last, ncalls, serial>>

\* line 69
RegisterRunStep(p) ==
    /\ pc[p] = "register_run"
    /\ registry' = RegisterRun(registry, FormatRunName(loc[p].run_name),
                       RunConfig(loc[p].run_id, TrackingRuns[loc[p].run_id]))
    /\ Goto(p, NextStep("register_run"))
    /\ loc' = [loc EXCEPT ![p].attach_writes = @ + 1]
    /\ UNCHANGED <<last, ncalls, serial>>

\* lines 72-73
GetRunInfoStep(p) ==
    /\ pc[p] = "get_run_info"
    /\ IF \/ loc[p].experiment_name \notin Keys(registry)
          \/ "runs" \notin
                DOMAIN GetRunInfo(registry, loc[p].experiment_name)
       THEN Fail(p)
       ELSE /\ Goto(p, NextStep("get_run_info"))
            /\ loc' = [loc EXCEPT ![p].info =
                          GetRunInfo(registry, loc[p].experiment_name)]
    /\ UNCHANGED <<registry, last, ncalls, serial>>

\* Variant of lines 72-74 that reads the experiment record again as it
\* writes, making the read-append-write one step
UpdateRunConfigStep_Atomic(p) ==
    /\ pc[p] = "update_run_config"
    /\ LET current ==
              IF /\ loc[p].experiment_name \in Keys(registry)
                 /\ "runs" \in
                       DOMAIN GetRunInfo(registry, loc[p].experiment_name)
              THEN GetRunInfo(registry, loc[p].experiment_name)
              ELSE loc[p].info
       IN  registry' = UpdateRunConfig(registry, loc[p].experiment_name,
                           [current EXCEPT
                               !.runs = Append(@, loc[p].run_name)])
    /\ Goto(p, NextStep("update_run_config"))
    /\ loc' = [loc EXCEPT ![p].attach_writes = @ + 1]
    /\ UNCHANGED <<last, ncalls, serial>>

\* lines 73-74
UpdateRunConfigStep(p) ==
    /\ pc[p] = "update_run_config"
    /\ registry' = UpdateRunConfig(registry, loc[p].experiment_name,
                       [loc[p].info EXCEPT
                           !.runs = Append(@, loc[p].run_name)])
    /\ Goto(p, NextStep("update_run_config"))
    /\ loc' = [loc EXCEPT ![p].attach_writes = @ + 1]
    /\ UNCHANGED <<last, ncalls, serial>>

\* the process stops where it is
Crash(p) ==
    /\ pc[p] \in ActivePcs
    /\ pc' = [pc EXCEPT ![p] = "crashed"]
    /\ loc' = [loc EXCEPT ![p].at = pc[p]]
    /\ UNCHANGED <<registry, last, ncalls, serial>>

ConcNext ==
    \E p \in Procs :
       \/ \E experiment_name \in ExperimentNameArgs, run_id \in RunIdArgs :
             Call(p, experiment_name, run_id)
       \/ ExistsCheck(p)
       \/ Initialize(p)
       \/ GetRun(p)
       \/ RegisterRunStep(p)
       \/ GetRunInfoStep(p)
       \/ UpdateRunConfigStep(p)
       \/ Crash(p)

ConcSpec == Init /\ [][ConcNext]_vars

----------------------------------------------------------------------------
\* Properties of sequential callers

HasKey(reg, key) == \E i \in 1..Len(reg) : reg[i].key = key

RecordCount(reg, key) == Cardinality({i \in 1..Len(reg) : reg[i].key = key})

ExperimentIndices(reg) ==
    {i \in 1..Len(reg) : reg[i].config.method = "mlflow_experiment"}

\* key is run_name with every hyphen replaced by an underscore
IsNormalizedOf(key, run_name) ==
    /\ Len(key) = Len(run_name)
    /\ \A i \in 1..Len(run_name) :
          key[i] = IF run_name[i] = "-" THEN "_" ELSE run_name[i]

\* C1: after a successful log_run(E, r) for an experiment E the tracking
\* service knows and a run r with display name d, the registry holds a
\* record under normalize(d) with method "mlflow_run" and run_name d, and
\* the record under E is an experiment record whose runs contains d.
C1_LogRunMirrorsRun ==
    (/\ last.op = "log_run"
     /\ last.status = "ok"
     /\ last.run_id # NoRunId
     /\ ExperimentFound(last.experiment_name))
    => LET d == DisplayNameOf(last.run_id)
       IN  /\ \E i \in 1..Len(registry) :
                 /\ IsNormalizedOf(registry[i].key, d)
                 /\ registry[i].config.method = "mlflow_run"
                 /\ registry[i].config.run_name = d
           /\ HasKey(registry, last.experiment_name)
           /\ GetRunInfo(registry, last.experiment_name).method
                 = "mlflow_experiment"
           /\ d \in Range(GetRunInfo(registry, last.experiment_name).runs)

C1_Witness ==
    /\ last.op = "log_run"
    /\ last.status = "ok"
    /\ last.experiment_name = Exp1
    /\ last.run_id = "r3"
    /\ HasKey(registry, <<"M", "_", "R">>)
    /\ ~HasKey(last.before, <<"M", "_", "R">>)

\* C2: log_run(E) with no run id, when the registry already holds a record
\* under E, calls the tracking service zero times, writes nothing, and
\* leaves the registry, with its single record for E, as it was.
C2_EnsureIdempotent ==
    (/\ last.op = "log_run"
     /\ last.run_id = NoRunId
     /\ HasKey(last.before, last.experiment_name))
    => /\ last.status = "ok"
       /\ last.tracking_calls = 0
       /\ last.writes = 0
       /\ registry = last.before
       /\ RecordCount(registry, last.experiment_name) = 1

C2_Witness ==
    /\ last.op = "log_run"
    /\ last.run_id = NoRunId
    /\ last.experiment_name = Exp1
    /\ HasKey(last.before, Exp1)
    /\ Len(GetRunInfo(last.before, Exp1).runs) > 0

\* C3: every experiment record's runs sequence holds each display name at
\* most once.
C3_NoDuplicateRuns ==
    \A i \in ExperimentIndices(registry) :
       LET runs == registry[i].config.runs
       IN  \A a, b \in 1..Len(runs) : runs[a] = runs[b] => a = b

SameExceptRuns(c1, c2) ==
    /\ c1.method = c2.method
    /\ DOMAIN c1 = DOMAIN c2
    /\ \A f \in DOMAIN c1 \ {"runs"} : c1[f] = c2[f]
    /\ c1.method # "mlflow_experiment" => c1 = c2

\* C4: no step removes a record, and a record that exists keeps every field
\* but the runs sequence of an experiment record.
C4_CreateOnceMutateInPlace ==
    [][\A i \in 1..Len(registry) :
          /\ HasKey(registry', registry[i].key)
          /\ SameExceptRuns(registry[i].config,
                            GetRunInfo(registry', registry[i].key))]_vars

\* C5: log_run(E, ...) for an E that neither the tracking service nor the
\* registry has ends in an error and leaves the registry as it was.
C5_UnknownExperimentWritesNothing ==
    (/\ last.op = "log_run"
     /\ ~ExperimentFound(last.experiment_name)
     /\ ~HasKey(last.before, last.experiment_name))
    => /\ last.status # "ok"
       /\ last.writes = 0
       /\ registry = last.before

C5_Witness ==
    /\ last.op = "log_run"
    /\ last.experiment_name = ExpGhost
    /\ last.run_id = "r1"
    /\ last.status = "AttributeError"
    /\ Len(last.before) > 0

\* The url the link query is to give for an experiment record
ExpectedLink(cfg) ==
    [url |-> (IF "tracking_uri" \in DOMAIN cfg THEN cfg.tracking_uri
              ELSE <<"http://localhost:8080">>)
             \o <<"/#/experiments/">> \o cfg.experiment_id,
     name |-> cfg.experiment_name]

\* C6: get_candidate_experiments returns {"urls": L} with one entry per
\* experiment record and none for any other record, in registry order, each
\* entry the record's url (default tracking uri when the record has none)
\* and name; and the registry is left unchanged.
C6_ExperimentLinks ==
    last.op = "get_candidate_experiments"
    => LET reg == last.before
           urls == last.result.urls
           idx == ExperimentIndices(reg)
       IN  /\ DOMAIN last.result = {"urls"}
           /\ Len(urls) = Cardinality(idx)
           /\ \A i \in idx :
                 urls[Cardinality({j \in idx : j <= i})]
                    = ExpectedLink(reg[i].config)
           /\ (idx = {} => urls = << >>)
           /\ registry = reg

C6_Witness ==
    /\ last.op = "get_candidate_experiments"
    /\ Len(last.result.urls) = 2
    /\ last.result.urls[1] =
          [url |-> <<"http://localhost:8080", "/#/experiments/", "7">>,
           name |-> ExpOld]
    /\ last.result.urls[2].name = Exp1
    /\ \E i \in 1..Len(registry) : registry[i].config.method = "mlflow_run"

\* C9: for every experiment record and every display name d in its runs, the
\* run record mirrored for d carries that experiment's experiment_id.
C9_RunsLinkedToOwnExperiment ==
    \A i \in ExperimentIndices(registry) :
       \A d \in Range(registry[i].config.runs) :
          /\ HasKey(registry, FormatRunName(d))
          /\ GetRunInfo(registry, FormatRunName(d)).experiment_id
                = registry[i].config.experiment_id

----------------------------------------------------------------------------
\* Properties of concurrent callers

\* C7: when two attaches to the same experiment record, of runs with
\* distinct display names d1 and d2, have both completed, runs contains
\* both if the calls were serialized, and not both if the two read the same
\* runs sequence before either wrote it back (an update is lost).
C7_LostUpdate ==
    \A experiment_name \in ExperimentNameArgs :
       (/\ \A p \in Procs :
              /\ pc[p] = "done"
              /\ loc[p].experiment_name = experiment_name
              /\ loc[p].run_id # NoRunId
        /\ loc[1].run_name # loc[2].run_name
        /\ HasKey(registry, experiment_name)
        /\ GetRunInfo(registry, experiment_name).method
              = "mlflow_experiment")
       => LET runs == Range(GetRunInfo(registry, experiment_name).runs)
              both == loc[1].run_name \in runs /\ loc[2].run_name \in runs
          IN  /\ serial => both
              /\ loc[1].info.runs = loc[2].info.runs => ~both

C7_Witness ==
    /\ \A p \in Procs : pc[p] = "done" /\ loc[p].experiment_name = Exp1
    /\ loc[1].run_id = "r1"
    /\ loc[2].run_id = "r3"
    /\ ~serial
    /\ GetRunInfo(registry, Exp1).runs = <<NameMyRun>>
    /\ HasKey(registry, FormatRunName(NameAHyphenB))

\* C8: a process that has made exactly one of the two registry writes of an
\* attach (it is between them, or it crashed or failed there), with no other
\* caller, has written the run record under normalize(d) and has not linked
\* d into any experiment record's runs.
C8_RunRecordFirst ==
    \A p \in Procs :
       (/\ loc[p].attach_writes = 1
        /\ \A q \in Procs \ {p} : pc[q] = "idle")
       => /\ \E i \in 1..Len(registry) :
                /\ IsNormalizedOf(registry[i].key, loc[p].run_name)
                /\ registry[i].config.method = "mlflow_run"
                /\ registry[i].config.run_name = loc[p].run_name
                /\ registry[i].config.run_id = loc[p].run_id
          /\ \A i \in ExperimentIndices(registry) :
                loc[p].run_name \notin Range(registry[i].config.runs)

C8_Witness ==
    /\ pc[1] = "crashed"
    /\ loc[1].at = "get_run_info"
    /\ loc[1].attach_writes = 1
    /\ pc[2] = "idle"
    /\ loc[1].experiment_name = Exp1
    /\ loc[1].run_id = "r3"
    /\ HasKey(registry, <<"M", "_", "R">>)
    /\ GetRunInfo(registry, Exp1).runs = << >>

====
